---- MODULE Spec2Model ----
(***************************************************************************)
(* npx-import (src/src/index.ts): npxImport / npxResolve.                  *)
(*                                                                         *)
(* Strings are modelled as sequences of tokens.  The separators "@", "/",  *)
(* ":" and "'" are tokens of their own; every other token is a run of      *)
(* characters that contains none of them.  A package specifier such as     *)
(* '@org/pkg@my-tag/lib' is <<"@","org","/","pkg","@","my-tag","/","lib">>,*)
(* the path '/usr/bin' is <<"/","usr","/","bin">>.                         *)
(***************************************************************************)
EXTENDS Integers, Sequences, FiniteSets, TLC

\* ------------------------------------------------------------------ bounds
\* Longest array of specifiers handed to one npxImport call.
MaxLen == 3

\* --------------------------------------------------------------- universe
\* The specifier strings callers hand to npxImport / npxResolve.
SpecPkgA      == <<"pkg-a">>
SpecPkgARange == <<"pkg-a", "@", ">=1", "/", "lib">>
SpecOne       == <<"1">>
SpecScoped    == <<"@", "org", "/", "pkg", "@", "my-tag">>
SpecRelative  == <<".", "/", "local">>
SpecCore      == <<"fs">>
SpecCapital   == <<"Bad">>
SpecCtor      == <<"constructor">>
SpecDangling  == <<"pkg-a", "@">>
SpecPkgATag   == <<"pkg-a", "@", "beta">>

Specifiers ==
    { SpecPkgA, SpecPkgARange, SpecOne, SpecScoped, SpecRelative,
      SpecCore, SpecCapital, SpecCtor, SpecDangling }

\* ------------------------------------------------ helpers on token strings
SubSeqFrom(s, i) == SubSeq(s, i, Len(s))

\* Index of the first token at or after `from` that is in `stop`; Len(s)+1 if
\* there is none.
IndexOfFirst(s, from, stop) ==
    LET hits == { i \in from..Len(s) : s[i] \in stop }
    IN  IF hits = {} THEN Len(s) + 1
        ELSE CHOOSE i \in hits : \A j \in hits : i <= j

\* ------------------------------------------------------ parse-package-name
\* parse(): RE_SCOPED = /^(@[^\/]+\/[^@\/]+)(?:@([^\/]+))?(\/.*)?$/ first,
\* then RE_NON_SCOPED = /^([^@\/]+)(?:@([^\/]+))?(\/.*)?$/; it throws when
\* neither matches.  `version` defaults to 'latest', `path` to ''.
Latest == <<"latest">>

ParseFailure == [ok |-> FALSE, name |-> <<>>, version |-> <<>>, path |-> <<>>]

\* The part of both expressions after the name group, which ends before
\* index k: (?:@([^\/]+))?(\/.*)?$
parseTail(s, k) ==
    IF k > Len(s)
    THEN [ok |-> TRUE, name |-> SubSeq(s, 1, k - 1), version |-> Latest, path |-> <<>>]
    ELSE IF s[k] = "/"
    THEN [ok |-> TRUE, name |-> SubSeq(s, 1, k - 1), version |-> Latest,
          path |-> SubSeqFrom(s, k)]
    ELSE \* s[k] = "@": the version runs to the next "/" and is not empty
         LET vEnd == IndexOfFirst(s, k + 1, {"/"})
         IN  IF vEnd = k + 1 THEN ParseFailure
             ELSE [ok |-> TRUE, name |-> SubSeq(s, 1, k - 1),
                   version |-> SubSeq(s, k + 1, vEnd - 1),
                   path |-> SubSeqFrom(s, vEnd)]

parseScoped(s) ==
    IF Len(s) = 0 \/ s[1] # "@" THEN ParseFailure
    ELSE LET slash   == IndexOfFirst(s, 2, {"/"})
             nameEnd == IndexOfFirst(s, slash + 1, {"@", "/"})
         IN  IF slash = 2 \/ slash > Len(s) \/ nameEnd = slash + 1
             THEN ParseFailure
             ELSE parseTail(s, nameEnd)

parseNonScoped(s) ==
    LET nameEnd == IndexOfFirst(s, 1, {"@", "/"})
    IN  IF nameEnd = 1 THEN ParseFailure ELSE parseTail(s, nameEnd)

parse(s) ==
    IF parseScoped(s).ok THEN parseScoped(s) ELSE parseNonScoped(s)

\* ---------------------------------------------- validate-npm-package-name
\* Tokens that begin with '.', tokens that contain a capital letter, and the
\* names of node's built-in modules.
DotWords       == {".", "..", ".npm", ".bin"}
CapitalWords   == {"Bad"}
CoreModuleWords == {"fs"}

CoreModuleWarning == "is a core module name"
CapitalsWarning   == "name can no longer contain capital letters"

IsPlainWord(w) == w \notin ({"@", "/", ":", "'"} \cup DotWords \cup CapitalWords)

\* validateNpmName(name): {validForNewPackages, warnings}.  A name is valid
\* for new packages when it is 'word' or '@word/word' in lower-case
\* URL-safe words, does not start with '.', and is no core module.
validateNpmName(name) ==
    LET shaped ==
            \/ Len(name) = 1 /\ (IsPlainWord(name[1]) \/ name[1] \in CapitalWords)
            \/ /\ Len(name) = 4
               /\ name[1] = "@" /\ name[3] = "/"
               /\ \A i \in {2, 4} : IsPlainWord(name[i]) \/ name[i] \in CapitalWords
        capitals == \E i \in 1..Len(name) : name[i] \in CapitalWords
        core     == Len(name) = 1 /\ name[1] \in CoreModuleWords
    IN  [ validForNewPackages |-> shaped /\ ~capitals /\ ~core,
          warnings |-> (IF core THEN {CoreModuleWarning} ELSE {})
                       \cup (IF capitals THEN {CapitalsWarning} ELSE {}) ]

\* ------------------------------------------------------------------ errors
NoError == [kind |-> "none"]

\* ------------------------------------------------------- parseAndValidate
\* p.match(/^[.\/]/)
StartsWithDotOrSlash(p) == Len(p) > 0 /\ (p[1] = "/" \/ p[1] \in DotWords)

\* Returns [error, name, version, path]; error.kind = "none" on success.
parseAndValidate(p) ==
    LET parsed     == parse(p)
        validation == validateNpmName(parsed.name)
        fail(e)    == [error |-> e, name |-> <<>>, version |-> <<>>, path |-> <<>>]
    IN  IF StartsWithDotOrSlash(p)
        THEN fail([kind |-> "InvalidSpecifier", got |-> p])
        ELSE IF ~parsed.ok
        THEN fail([kind |-> "ParseError", got |-> p])
        ELSE IF ~validation.validForNewPackages
        THEN IF CoreModuleWarning \in validation.warnings
             THEN fail([kind |-> "CoreModuleNotImportable",
                        name |-> parsed.name, got |-> p])
             ELSE fail([kind |-> "InvalidPackageName",
                        name |-> parsed.name, got |-> p])
        ELSE [error |-> NoError, name |-> parsed.name,
              version |-> parsed.version, path |-> parsed.path]

\* ------------------------------------------------------------ formatForCLI
\* Tokens that contain one of the characters < > *
ShellCharWords == {">=1", "<2", "*"}

\* `${p.name}@${p.version}`, wrapped in '' when it matches /[<>*]/
formatForCLI(p) ==
    LET unescaped == p.name \o <<"@">> \o p.version
    IN  IF \E i \in 1..Len(unescaped) : unescaped[i] \in ShellCharWords
        THEN <<"'">> \o unescaped \o <<"'">>
        ELSE unescaped

\* ------------------------------------------------------- getPackageManager
\* The values process.env.npm_config_user_agent, process.env.npm_execpath
\* and process.mainModule.path take; "" is unset.
PnpmAgents  == {"pnpm/7.5.0 npm/? node/v16"}
YarnAgents  == {"yarn/1.22.19 npm/? node/v16"}
NpmAgents   == {"npm/8.1.2 node/v16"}
NpmExecPaths  == {"/usr/lib/node_modules/npm/bin/npx-cli.js"}
YarnExecPaths == {"/usr/share/yarn/bin/yarn"}
PnpmMainPaths == {"/home/.pnpm/store/cli"}
YarnMainPaths == {"/home/.yarn/berry"}

getPackageManager(env) ==
    IF env.userAgent \in PnpmAgents THEN "pnpm"
    ELSE IF env.userAgent \in YarnAgents THEN "yarn"
    ELSE IF env.userAgent \in NpmAgents THEN "npm"
    ELSE IF env.execpath \in NpmExecPaths THEN "npm"
    ELSE IF env.execpath \in YarnExecPaths THEN "yarn"
    ELSE IF env.mainModulePath \in PnpmMainPaths THEN "pnpm"
    ELSE IF env.mainModulePath \in YarnMainPaths THEN "yarn"
    ELSE "npm"

INSTRUCTIONS ==
    [ npm  |-> <<"npm", "install", "--save-dev">>,
      pnpm |-> <<"pnpm", "add", "-D">>,
      yarn |-> <<"yarn", "add", "-D">> ]

\* INSTRUCTIONS[getPackageManager()](packages.map(formatForCLI).join(' '))
installInstructions(packages, env) ==
    [ command  |-> INSTRUCTIONS[getPackageManager(env)],
      packages |-> [i \in 1..Len(packages) |-> formatForCLI(packages[i])] ]

\* ------------------------------------------------------------------ semver
\* The strings semver can parse, with the version each stands for.
SemverTable ==
    [ v \in {"7.1.2", "8.0.0", "10.2.1"} |->
        CASE v = "7.1.2"  -> <<7, 1, 2>>
          [] v = "8.0.0"  -> <<8, 0, 0>>
          [] v = "10.2.1" -> <<10, 2, 1>> ]

semverValid(v) == Len(v) = 1 /\ v[1] \in DOMAIN SemverTable

\* semver.gte(a, b) for two valid versions: major, minor, patch in turn.
semverGte(a, b) ==
    LET x == SemverTable[a[1]]
        y == SemverTable[b[1]]
    IN  \/ x[1] > y[1]
        \/ x[1] = y[1] /\ x[2] > y[2]
        \/ x[1] = y[1] /\ x[2] = y[2] /\ x[3] >= y[3]

MinNpmVersion == <<"8.0.0">>

\* ------------------------------------------------------------------- paths
\* stdout.split(':'): the segments between the ":" tokens.
RECURSIVE split(_)
split(s) ==
    LET colon == IndexOfFirst(s, 1, {":"})
    IN  IF colon > Len(s) THEN <<s>>
        ELSE <<SubSeq(s, 1, colon - 1)>> \o split(SubSeqFrom(s, colon + 1))

\* /\/\.npm\/_npx\//.exec(p)
MatchesNpxCache(p) ==
    \E i \in 1..Len(p) :
        /\ i + 4 <= Len(p)
        /\ SubSeq(p, i, i + 4) = <<"/", ".npm", "/", "_npx", "/">>

\* findTempPath taking the last matching segment.
findTempPath_Last(paths) ==
    LET hits == { i \in 1..Len(paths) : MatchesNpxCache(paths[i]) }
    IN  IF hits = {} THEN <<>>
        ELSE paths[CHOOSE i \in hits : \A j \in hits : i >= j]

\* paths.find(...): the first matching segment, <<>> (undefined) if none.
findTempPath(paths) ==
    LET hits == { i \in 1..Len(paths) : MatchesNpxCache(paths[i]) }
    IN  IF hits = {} THEN <<>>
        ELSE paths[CHOOSE i \in hits : \A j \in hits : i <= j]

\* path.resolve(tempPath, '..') for an absolute tempPath: drop trailing
\* slashes, then the last component and the slash before it.
RECURSIVE stripTrailingSlashes(_)
stripTrailingSlashes(p) ==
    IF Len(p) > 1 /\ p[Len(p)] = "/"
    THEN stripTrailingSlashes(SubSeq(p, 1, Len(p) - 1))
    ELSE p

parentDir(p) ==
    LET q == stripTrailingSlashes(p)
    IN  IF Len(q) <= 2 THEN <<"/">> ELSE SubSeq(q, 1, Len(q) - 2)

\* nodeModulesPath.endsWith('node_modules')
NodeModulesWords == {"node_modules"}
endsWithNodeModules(p) == Len(p) > 0 /\ p[Len(p)] \in NodeModulesWords

\* --------------------------------------------------- Object property order
\* Names that are canonical array indices, with their numeric value: an
\* object lists such keys first, in ascending order, and the other string
\* keys after them in insertion order.
ArrayIndexWords == {"0", "1", "2"}
ArrayIndexValue(w) == CASE w = "0" -> 0 [] w = "1" -> 1 [] w = "2" -> 2

IsArrayIndex(name) == Len(name) = 1 /\ name[1] \in ArrayIndexWords

\* Object.values(packages), `inserted` being the packages in insertion order.
ObjectValues(inserted) ==
    LET n    == Len(inserted)
        ints == { i \in 1..n : IsArrayIndex(inserted[i].name) }
        strs == (1..n) \ ints
        val(i) == ArrayIndexValue(inserted[i].name[1])
        pos(i) == IF i \in ints
                  THEN 1 + Cardinality({ j \in ints : val(j) < val(i)
                                                          \/ (val(j) = val(i) /\ j < i) })
                  ELSE Cardinality(ints) + 1 + Cardinality({ j \in strs : j < i })
    IN  [k \in 1..n |-> inserted[CHOOSE i \in 1..n : pos(i) = k]]

\* Properties every plain object inherits from Object.prototype; all of them
\* are truthy.
ObjectPrototypeKeys ==
    { <<"constructor">>, <<"toString">>, <<"valueOf">>, <<"hasOwnProperty">> }

\* ================================================================== state
Slots == {"c1", "c2"}

VARIABLES
    calls,          \* slot -> the npxImport call running in it
    INSTALL_CACHE,  \* own properties of the INSTALL_CACHE object
    processEnv,     \* process.env / process.mainModule, as getPackageManager reads it
    lastResolve,    \* outcome of the latest npxResolve call
    requested       \* history: every package name passed to npxImport so far

vars == <<calls, INSTALL_CACHE, processEnv, lastResolve, requested>>

\* ----------------------------------------------------------------- inputs
Inputs ==
    { [isArray |-> FALSE, specs |-> <<p>>] : p \in Specifiers }
    \cup { [isArray |-> TRUE, specs |-> q] :
             q \in UNION { [1..n -> Specifiers] : n \in 0..MaxLen } }

ProcessEnvs ==
    { [userAgent |-> "pnpm/7.5.0 npm/? node/v16", execpath |-> "", mainModulePath |-> ""],
      [userAgent |-> "", execpath |-> "/usr/share/yarn/bin/yarn", mainModulePath |-> ""] }

\* ---------------------------------------------------------------- modules
NOT_IMPORTABLE == [tag |-> "NOT_IMPORTABLE"]
INSTALLED_LOCALLY == [tag |-> "INSTALLED_LOCALLY", dir |-> <<>>]
InstalledAt(dir) == [tag |-> "dir", dir |-> dir]

\* The module object import() yields for `spec`, resolved from the current
\* project (base = <<>>) or relative to the directory `base`.
Module(base, spec) == [tag |-> "module", base |-> base, spec |-> spec]

\* ------------------------------------------------------ external outcomes
\* What a settled execaCommand promise carries: a rejection, or a result.
Rejected        == [rejected |-> TRUE,  failed |-> TRUE,  stdout |-> <<>>]
Failed          == [rejected |-> FALSE, failed |-> TRUE,  stdout |-> <<>>]
Succeeded(out)  == [rejected |-> FALSE, failed |-> FALSE, stdout |-> out]

VersionStdouts == { <<"7.1.2">>, <<"8.0.0">>, <<"10.2.1">>, <<"npx", ":", "not found">> }

NpxBin(hash) ==
    <<"/", ".npm", "/", "_npx", "/", hash, "/", "node_modules", "/", ".bin">>
UsrBin == <<"/", "usr", "/", "bin">>

InstallStdouts ==
    { UsrBin \o <<":">> \o NpxBin("h1"),
      NpxBin("h2") \o <<":">> \o NpxBin("h1") \o <<":">> \o UsrBin,
      UsrBin,
      <<"/", ".npm", "/", "_npx", "/", "h1", "/", "bin">> \o <<":">> \o NpxBin("h2") }

VersionOutcomes == {Rejected, Failed} \cup { Succeeded(v) : v \in VersionStdouts }
InstallOutcomes == {Rejected, Failed} \cup { Succeeded(o) : o \in InstallStdouts }

\* ------------------------------------------------------------ call record
IdleCall ==
    [ pc              |-> "idle",
      pkg             |-> [isArray |-> TRUE, specs |-> <<>>],
      i               |-> 0,       \* position in pkg of the specifier being probed
      packages        |-> <<>>,    \* the `packages` record, in insertion order
      localPackages   |-> <<>>,
      missingPackages |-> <<>>,
      installDir      |-> <<>>,
      k               |-> 0,       \* position in missingPackages being imported
      result          |-> [isArray |-> TRUE, value |-> <<>>],
      error           |-> NoError,
      trace           |-> <<>>,    \* history: external operations, in order
      overlapped      |-> FALSE ]  \* history: another call ran during this one

Event(op, arg) == [op |-> op, arg |-> arg]
Do(call, op, arg) == [call EXCEPT !.trace = Append(@, Event(op, arg))]

Throw(call, e) == [call EXCEPT !.pc = "failed", !.error = e]

versionCmd == [prog |-> <<"npx", "--version">>, packages |-> <<>>, emitPath |-> FALSE]

\* packages[name] is truthy: an own property, or one Object.prototype gives.
HasProperty(packages, name) ==
    \/ \E j \in 1..Len(packages) : packages[j].name = name
    \/ name \in ObjectPrototypeKeys

\* IsMissing that takes a package with a cache entry as dealt with.
IsMissing_UnlessCached(p) ==
    p.imported = NOT_IMPORTABLE /\ p.name \notin DOMAIN INSTALL_CACHE

IsMissing(p) == p.imported = NOT_IMPORTABLE
IsLocal(p)   == p.imported # NOT_IMPORTABLE

Names(packages) == [j \in 1..Len(packages) |-> packages[j].name]
WithPaths(packages) == [j \in 1..Len(packages) |-> packages[j].packageWithPath]

\* ============================================================== operations
\* Each operator below is the synchronous code that runs between two awaits;
\* each action is one resumption of a call by the promise it awaits.

\* iterate with the check for a name seen earlier lost.
iterate_NoDuplicateCheck(call, i) ==
    LET p  == call.pkg.specs[i]
        pv == parseAndValidate(p)
    IN  IF pv.error # NoError
        THEN Throw(call, pv.error)
        ELSE Do([call EXCEPT !.pc = "probing", !.i = i],
                "import", pv.name \o pv.path)

\* checkPackagesAvailableLocally: one turn of the loop over pkg, up to the
\* await of tryImport.
iterate(call, i) ==
    LET p  == call.pkg.specs[i]
        pv == parseAndValidate(p)
    IN  IF pv.error # NoError
        THEN Throw(call, pv.error)
        ELSE IF HasProperty(call.packages, pv.name)
        THEN Throw(call, [kind |-> "DuplicatePackageRequest",
                          got |-> p, name |-> pv.name])
        ELSE Do([call EXCEPT !.pc = "probing", !.i = i],
                "import", pv.name \o pv.path)

\* tryImport: the module, or NOT_IMPORTABLE when _import rejects.
tryImport(packageWithPath, loadable) ==
    IF loadable THEN Module(<<>>, packageWithPath) ELSE NOT_IMPORTABLE

\* probed with the version left in packageWithPath.
probed_KeepVersion(p, loadable) ==
    LET pv == parseAndValidate(p)
        packageWithPath == pv.name \o <<"@">> \o pv.version \o pv.path
        imported == tryImport(packageWithPath, loadable)
    IN  [ name            |-> pv.name,
          packageWithPath |-> packageWithPath,
          version         |-> pv.version,
          path            |-> pv.path,
          imported        |-> imported,
          local           |-> imported # NOT_IMPORTABLE ]

\* The Package stored for specifier p with the outcome of its probe.
probed(p, loadable) ==
    LET pv == parseAndValidate(p)
        packageWithPath == pv.name \o pv.path
        imported == tryImport(packageWithPath, loadable)
    IN  [ name            |-> pv.name,
          packageWithPath |-> packageWithPath,
          version         |-> pv.version,
          path            |-> pv.path,
          imported        |-> imported,
          local           |-> imported # NOT_IMPORTABLE ]

\* const results = allPackages.map((p) => p.imported)
\* return Array.isArray(pkg) ? results : results[0]
return(call) ==
    LET all     == ObjectValues(call.packages)
        results == [j \in 1..Len(all) |-> all[j].imported]
    IN  [call EXCEPT !.pc = "done",
                     !.result = [ isArray |-> call.pkg.isArray,
                                  value   |-> IF call.pkg.isArray THEN results
                                              ELSE SubSeq(results, 1, 1) ]]

notAvailableMessage(missing) ==
    [ kind |-> "notAvailableLocally", plural |-> Len(missing) > 1,
      packages |-> WithPaths(missing) ]

\* afterProbing with the check for missing packages lost: the call returns
\* what the probes gave.
afterProbing_NoInstall(call) ==
    LET allPackages == ObjectValues(call.packages)
    IN  return([call EXCEPT !.localPackages = SelectSeq(allPackages, IsLocal),
                            !.missingPackages = SelectSeq(allPackages, IsMissing)])

\* afterProbing with the version query issued whether or not a package is
\* missing.
afterProbing_AlwaysGate(call) ==
    LET allPackages     == ObjectValues(call.packages)
        missingPackages == SelectSeq(allPackages, IsMissing)
    IN  Do(Do([call EXCEPT !.pc = "versionQuery",
                           !.localPackages = SelectSeq(allPackages, IsLocal),
                           !.missingPackages = missingPackages],
              "log", notAvailableMessage(missingPackages)),
           "exec", versionCmd)

\* npxImport from the return of checkPackagesAvailableLocally to the await
\* of checkNpxVersion's execaCommand, or to the return when nothing is missing.
afterProbing(call) ==
    LET allPackages     == ObjectValues(call.packages)
        localPackages   == SelectSeq(allPackages, IsLocal)
        missingPackages == SelectSeq(allPackages, IsMissing)
        c1 == [call EXCEPT !.localPackages = localPackages,
                           !.missingPackages = missingPackages]
    IN  IF Len(missingPackages) > 0
        THEN Do(Do([c1 EXCEPT !.pc = "versionQuery"],
                   "log", notAvailableMessage(missingPackages)),
                "exec", versionCmd)
        ELSE return(c1)

\* wrap naming every package of the call instead of the missing ones.
wrap_AllPackages(call, e, env) ==
    Throw(call,
          [ kind         |-> "OrchestrationFailed",
            failedFor    |-> WithPaths(ObjectValues(call.packages)),
            message      |-> e,
            install      |-> Names(ObjectValues(call.packages)),
            instructions |-> installInstructions(ObjectValues(call.packages), env) ])

\* The catch block of npxImport.
wrap(call, e, env) ==
    Throw(call,
          [ kind         |-> "OrchestrationFailed",
            failedFor    |-> WithPaths(call.missingPackages),
            message      |-> e,
            install      |-> Names(call.missingPackages),
            instructions |-> installInstructions(call.missingPackages, env) ])

\* checkNpxVersion with the comparison against 8.0.0 lost.
checkNpxVersion_NoGate(outcome) ==
    IF outcome.rejected
    THEN [kind |-> "ExecaError", cmd |-> versionCmd]
    ELSE IF outcome.failed
    THEN [kind |-> "ToolUnavailable", cmd |-> versionCmd]
    ELSE NoError

\* checkNpxVersion after its await: the error it throws, or NoError.
checkNpxVersion(outcome) ==
    IF outcome.rejected
    THEN [kind |-> "ExecaError", cmd |-> versionCmd]
    ELSE IF outcome.failed
    THEN [kind |-> "ToolUnavailable", cmd |-> versionCmd]
    ELSE IF ~semverValid(outcome.stdout)
    THEN [kind |-> "InvalidVersion", version |-> outcome.stdout]
    ELSE IF ~semverGte(outcome.stdout, MinNpmVersion)
    THEN [kind |-> "ToolVersionTooOld", version |-> outcome.stdout,
          cmd |-> versionCmd]
    ELSE NoError

\* `npx -y -p a@1 -p b@2`, and the same followed by the emitPath command.
installPackage(packages) ==
    [ prog     |-> <<"npx", "-y">>,
      packages |-> [j \in 1..Len(packages) |-> formatForCLI(packages[j])],
      emitPath |-> FALSE ]
fullCmd(packages) == [installPackage(packages) EXCEPT !.emitPath = TRUE]

\* startInstall that issues no install of its own while another call's
\* install is running, and waits for that one instead.
startInstall_JoinOther(call) ==
    IF \E d \in Slots : calls[d].pc = "installing"
    THEN [call EXCEPT !.pc = "installing"]
    ELSE Do(Do([call EXCEPT !.pc = "installing"],
               "log", [kind |-> "installing",
                       cmd |-> installPackage(call.missingPackages)]),
            "exec", fullCmd(call.missingPackages))

\* startInstall that runs the command before it logs it.
startInstall_LogAfter(call) ==
    Do(Do([call EXCEPT !.pc = "installing"],
          "exec", fullCmd(call.missingPackages)),
       "log", [kind |-> "installing",
               cmd |-> installPackage(call.missingPackages)])

\* installAndReturnDir up to the await of execaCommand(fullCmd).
startInstall(call) ==
    Do(Do([call EXCEPT !.pc = "installing"],
          "log", [kind |-> "installing",
                  cmd |-> installPackage(call.missingPackages)]),
       "exec", fullCmd(call.missingPackages))

\* installAndReturnDir after the await: [error, dir].
installedDir(packages, outcome) ==
    LET paths           == split(outcome.stdout)
        tempPath        == findTempPath(paths)
        nodeModulesPath == parentDir(tempPath)
        fail(e)         == [error |-> e, dir |-> <<>>]
    IN  IF outcome.rejected
        THEN fail([kind |-> "ExecaError", cmd |-> fullCmd(packages)])
        ELSE IF outcome.failed
        THEN fail([kind |-> "InstallFailed", names |-> Names(packages),
                   cmd |-> installPackage(packages)])
        ELSE IF tempPath = <<>>
        THEN fail([kind |-> "TempDirNotFound", paths |-> paths])
        ELSE IF ~endsWithNodeModules(nodeModulesPath)
        THEN fail([kind |-> "UnexpectedInstallLayout", tempPath |-> tempPath])
        ELSE [error |-> NoError, dir |-> nodeModulesPath]

\* The loop over missingPackages, up to the await of _importRelative.
importNext(call, k) ==
    Do([call EXCEPT !.pc = "importing", !.k = k],
       "importRelative",
       [dir |-> call.installDir, spec |-> call.missingPackages[k].packageWithPath])

\* packages[pkg.name].imported = module
assignImported(call, name, module) ==
    [call EXCEPT !.packages =
        [j \in 1..Len(@) |-> IF @[j].name = name
                             THEN [@[j] EXCEPT !.imported = module]
                             ELSE @[j]]]

\* cacheSet building the cache anew around the entry it writes.
cacheSet_Replace(cache, name, value) == (name :> value)

\* INSTALL_CACHE[name] = value
cacheSet(cache, name, value) == (name :> value) @@ cache

\* for (const pkg of localPackages) INSTALL_CACHE[pkg.name] = INSTALLED_LOCALLY
RECURSIVE cacheLocals(_, _)
cacheLocals(cache, locals) ==
    IF locals = <<>> THEN cache
    ELSE cacheLocals(cacheSet(cache, Head(locals).name, INSTALLED_LOCALLY),
                     Tail(locals))

RECURSIVE traceLocals(_, _)
traceLocals(call, locals) ==
    IF locals = <<>> THEN call
    ELSE traceLocals(Do(call, "cacheWrite",
                        [name |-> Head(locals).name, value |-> INSTALLED_LOCALLY]),
                     Tail(locals))

\* INSTALL_CACHE[name]: an own property, an inherited one, or undefined.
cacheGet(cache, name) ==
    IF name \in DOMAIN cache THEN cache[name]
    ELSE IF name \in ObjectPrototypeKeys THEN [tag |-> "inherited", dir |-> <<>>]
    ELSE [tag |-> "undefined", dir |-> <<>>]

\* npxResolve with the INSTALLED_LOCALLY branch lost.
npxResolve_NoLocalBranch(cache, pkg) ==
    LET parsed          == parse(pkg)
        packageWithPath == parsed.name \o parsed.path
        cachedDir       == cacheGet(cache, parsed.name)
        out(e, via)     == [error |-> e, via |-> via, base |-> cachedDir,
                            spec |-> packageWithPath]
    IN  IF ~parsed.ok
        THEN [error |-> [kind |-> "ParseError", got |-> pkg], via |-> "none",
              base |-> [tag |-> "undefined", dir |-> <<>>], spec |-> <<>>]
        ELSE IF cachedDir.tag = "undefined"
        THEN out([kind |-> "ResolveBeforeImport", got |-> pkg], "none")
        ELSE out(NoError, "_resolveRelative")

\* npxResolve: what it throws, or the resolver it returns the answer of.
npxResolve(cache, pkg) ==
    LET parsed          == parse(pkg)
        packageWithPath == parsed.name \o parsed.path
        cachedDir       == cacheGet(cache, parsed.name)
        out(e, via)     == [error |-> e, via |-> via, base |-> cachedDir,
                            spec |-> packageWithPath]
    IN  IF ~parsed.ok
        THEN [error |-> [kind |-> "ParseError", got |-> pkg], via |-> "none",
              base |-> [tag |-> "undefined", dir |-> <<>>], spec |-> <<>>]
        ELSE IF cachedDir.tag = "undefined"
        THEN out([kind |-> "ResolveBeforeImport", got |-> pkg], "none")
        ELSE IF cachedDir = INSTALLED_LOCALLY
        THEN out(NoError, "_resolve")
        ELSE out(NoError, "_resolveRelative")

\* ================================================================= actions
NoResolve ==
    [ error |-> NoError, via |-> "none",
      base |-> [tag |-> "undefined", dir |-> <<>>], spec |-> <<>> ]

ResolveInputs == Specifiers \cup { <<"toString">> }

InFlight(call) == call.pc \in {"probing", "versionQuery", "installing", "importing"}

\* The names npxImport(pkg) is passed: those parse() finds in the specifiers.
NamesPassed(pkg) ==
    { parse(pkg.specs[j]).name : j \in { j \in 1..Len(pkg.specs) : parse(pkg.specs[j]).ok } }

Init ==
    /\ calls = [c \in Slots |-> IdleCall]
    /\ INSTALL_CACHE = [n \in {} |-> INSTALLED_LOCALLY]
    /\ processEnv \in ProcessEnvs
    /\ lastResolve = NoResolve
    /\ requested = {}

\* A caller invokes npxImport(pkg): the call runs to its first await.
NpxImport(c, pkg) ==
    /\ calls[c].pc = "idle"
    /\ LET others == \E d \in Slots \ {c} : InFlight(calls[d])
           call   == [IdleCall EXCEPT !.pkg = pkg, !.overlapped = others]
           begun  == IF Len(pkg.specs) = 0 THEN afterProbing(call)
                     ELSE iterate(call, 1)
       IN  calls' = [d \in Slots |->
                        IF d = c THEN begun
                        ELSE IF InFlight(calls[d])
                        THEN [calls[d] EXCEPT !.overlapped = TRUE]
                        ELSE calls[d]]
    /\ requested' = requested \cup NamesPassed(pkg)
    /\ lastResolve' = NoResolve
    /\ UNCHANGED <<INSTALL_CACHE, processEnv>>

\* The _import of the specifier at position i settles.
ProbeSettles(c, loadable) ==
    /\ calls[c].pc = "probing"
    /\ LET call == calls[c]
           c1   == [call EXCEPT !.packages =
                        Append(@, probed(call.pkg.specs[call.i], loadable))]
       IN  calls' = [calls EXCEPT ![c] =
                        IF call.i < Len(call.pkg.specs) THEN iterate(c1, call.i + 1)
                        ELSE afterProbing(c1)]
    /\ UNCHANGED <<INSTALL_CACHE, processEnv, lastResolve, requested>>

\* The execaCommand of checkNpxVersion settles.
VersionSettles(c, outcome) ==
    /\ calls[c].pc = "versionQuery"
    /\ LET call == Do(calls[c], "versionSettled", outcome)
           e    == checkNpxVersion(outcome)
       IN  calls' = [calls EXCEPT ![c] =
                        IF e # NoError THEN wrap(call, e, processEnv)
                        ELSE startInstall(call)]
    /\ UNCHANGED <<INSTALL_CACHE, processEnv, lastResolve, requested>>

\* The execaCommand of installAndReturnDir settles.
InstallSettles(c, outcome) ==
    /\ calls[c].pc = "installing"
    /\ LET call == Do(calls[c], "installSettled", outcome)
           r    == installedDir(call.missingPackages, outcome)
           c1   == Do(Do([call EXCEPT !.installDir = r.dir],
                         "log", [kind |-> "installedInto", dir |-> r.dir]),
                      "log", [kind |-> "toSkip",
                              instructions |->
                                  installInstructions(call.missingPackages, processEnv)])
       IN  calls' = [calls EXCEPT ![c] =
                        IF r.error # NoError THEN wrap(call, r.error, processEnv)
                        ELSE importNext(c1, 1)]
    /\ UNCHANGED <<INSTALL_CACHE, processEnv, lastResolve, requested>>

\* The _importRelative of missingPackages[k] settles.
ImportRelativeSettles(c, ok) ==
    /\ calls[c].pc = "importing"
    /\ LET call  == calls[c]
           pkg   == call.missingPackages[call.k]
           value == InstalledAt(call.installDir)
           c1    == Do(assignImported(call, pkg.name,
                                      Module(call.installDir, pkg.packageWithPath)),
                       "cacheWrite", [name |-> pkg.name, value |-> value])
           cache1 == cacheSet(INSTALL_CACHE, pkg.name, value)
       IN  IF ~ok
           THEN /\ calls' = [calls EXCEPT ![c] =
                       wrap(call, [kind |-> "ImportError", dir |-> call.installDir,
                                   spec |-> pkg.packageWithPath], processEnv)]
                /\ UNCHANGED INSTALL_CACHE
           ELSE IF call.k < Len(call.missingPackages)
           THEN /\ calls' = [calls EXCEPT ![c] = importNext(c1, call.k + 1)]
                /\ INSTALL_CACHE' = cache1
           ELSE /\ calls' = [calls EXCEPT ![c] =
                                return(traceLocals(c1, call.localPackages))]
                /\ INSTALL_CACHE' = cacheLocals(cache1, call.localPackages)
    /\ UNCHANGED <<processEnv, lastResolve, requested>>

\* The caller takes the settled promise of the call; the slot is free again.
Settle(c) ==
    /\ calls[c].pc \in {"done", "failed"}
    /\ calls' = [calls EXCEPT ![c] = IdleCall]
    /\ UNCHANGED <<INSTALL_CACHE, processEnv, lastResolve, requested>>

\* A caller invokes npxResolve(pkg), between any two steps of the calls.
\* npxResolve is synchronous and reads nothing but INSTALL_CACHE.
NpxResolve(pkg) ==
    /\ lastResolve' = npxResolve(INSTALL_CACHE, pkg)
    /\ UNCHANGED <<calls, INSTALL_CACHE, processEnv, requested>>

\* ---------------------------------------------------------- specifications
\* Spec: one npxImport call from process start, with any input of up to
\* MaxLen specifiers and any outcome of the external operations.
Next ==
    \/ \E pkg \in Inputs : NpxImport("c1", pkg)
    \/ \E loadable \in BOOLEAN : ProbeSettles("c1", loadable)
    \/ \E outcome \in VersionOutcomes : VersionSettles("c1", outcome)
    \/ \E outcome \in InstallOutcomes : InstallSettles("c1", outcome)
    \/ \E ok \in BOOLEAN : ImportRelativeSettles("c1", ok)

Spec == Init /\ [][Next]_vars

\* SpecProc: one process in which two callers invoke npxImport again and
\* again, overlapping or not, with npxResolve in between.  The first caller
\* asks for two packages, the second for one of them (a subpath of it, or
\* another tag of it) or for the same two.
ProcInputs ==
    [ c1 |-> { [isArray |-> TRUE, specs |-> <<SpecPkgA, SpecScoped>>] },
      c2 |-> { [isArray |-> FALSE, specs |-> <<SpecPkgARange>>],
               [isArray |-> FALSE, specs |-> <<SpecPkgATag>>],
               [isArray |-> TRUE, specs |-> <<SpecPkgA, SpecScoped>>] } ]

ProcVersionOutcomes == { Succeeded(<<"8.0.0">>), Failed }

ProcInstallOutcomes ==
    { Succeeded(UsrBin \o <<":">> \o NpxBin("h1")),
      Succeeded(NpxBin("h2") \o <<":">> \o NpxBin("h1") \o <<":">> \o UsrBin),
      Failed }

ProcResolveInputs == { SpecPkgARange, SpecScoped, SpecCtor, <<"toString">> }

InitProc ==
    /\ Init
    /\ processEnv.userAgent # ""

NextProc ==
    \/ \E c \in Slots : \E pkg \in ProcInputs[c] : NpxImport(c, pkg)
    \/ \E c \in Slots : \E loadable \in BOOLEAN : ProbeSettles(c, loadable)
    \/ \E c \in Slots : \E outcome \in ProcVersionOutcomes : VersionSettles(c, outcome)
    \/ \E c \in Slots : \E outcome \in ProcInstallOutcomes : InstallSettles(c, outcome)
    \/ \E c \in Slots : \E ok \in BOOLEAN : ImportRelativeSettles(c, ok)
    \/ \E c \in Slots : Settle(c)
    \/ \E pkg \in ProcResolveInputs : NpxResolve(pkg)

SpecProc == InitProc /\ [][NextProc]_vars

\* ================================================================== claims
IsInstallExec(e) == e.op = "exec" /\ e.arg.prog = <<"npx", "-y">>
IsVersionExec(e) == e.op = "exec" /\ e.arg.prog = <<"npx", "--version">>
Ops(call) == { call.trace[j].op : j \in 1..Len(call.trace) }

\* The import request a specifier stands for: its name and subpath.
Target(p) == parse(p).name \o parse(p).path

\* C1: every npxImport call either returns a real module for every input
\* specifier (none of them NOT_IMPORTABLE) or throws one error and returns
\* nothing; there is no partial result.
C1_AllOrError ==
    \A c \in Slots :
        LET call == calls[c]
        IN  /\ call.pc = "done" =>
                /\ call.error = NoError
                /\ Len(call.result.value) = Len(call.pkg.specs)
                /\ \A j \in 1..Len(call.result.value) :
                       /\ call.result.value[j] # NOT_IMPORTABLE
                       /\ call.result.value[j].tag = "module"
            /\ call.pc = "failed" =>
                /\ call.error # NoError
                /\ call.result.value = <<>>

\* A call returned modules of which one was probed locally and one was
\* imported from the temporary directory.
C1_Witness ==
    \E c \in Slots :
        /\ calls[c].pc = "done"
        /\ \E j, k \in 1..Len(calls[c].result.value) :
               /\ calls[c].result.value[j].base = <<>>
               /\ calls[c].result.value[k].base # <<>>

\* C2: a successful call returns one module per input specifier, in input
\* order; a bare string gives the one module, an array an array of the same
\* length.
C2_ResultInInputOrder ==
    \A c \in Slots :
        LET call == calls[c]
        IN  call.pc = "done" =>
                /\ call.result.isArray = call.pkg.isArray
                /\ Len(call.result.value) = Len(call.pkg.specs)
                /\ \A j \in 1..Len(call.result.value) :
                       /\ call.result.value[j].tag = "module"
                       /\ call.result.value[j].spec = Target(call.pkg.specs[j])

\* name@versionOrTag of the packages that probed as missing, in input order.
MissingInInputOrder(call) ==
    LET missing == SelectSeq(call.packages, LAMBDA p : ~p.local)
    IN  [j \in 1..Len(missing) |-> missing[j].name \o <<"@">> \o missing[j].version]

Unquoted(s) == SelectSeq(s, LAMBDA t : t # "'")

\* C3: a call with missing packages issues at most one install invocation,
\* exactly one once the version gate has passed, and the invocation names
\* exactly the missing packages as name@versionOrTag, in input order.
C3_OneInstallInInputOrder ==
    \A c \in Slots :
        LET call     == calls[c]
            t        == call.trace
            installs == { j \in 1..Len(t) : IsInstallExec(t[j]) }
            passed   == \E j \in 1..Len(t) :
                            /\ t[j].op = "versionSettled"
                            /\ ~t[j].arg.failed
                            /\ t[j].arg.stdout \in { <<"8.0.0">>, <<"10.2.1">> }
        IN  /\ Cardinality(installs) <= 1
            /\ passed => Cardinality(installs) = 1
            /\ \A j \in installs :
                   [k \in 1..Len(t[j].arg.packages) |-> Unquoted(t[j].arg.packages[k])]
                       = MissingInInputOrder(call)

ValidationKinds ==
    { "InvalidSpecifier", "CoreModuleNotImportable", "InvalidPackageName",
      "DuplicatePackageRequest" }

\* C4: a call that fails validation or repeats a name aborts before any
\* local import probe of any of its specifiers.
C4_ValidationBeforeProbing ==
    \A c \in Slots :
        (calls[c].pc = "failed" /\ calls[c].error.kind \in ValidationKinds)
            => "import" \notin Ops(calls[c])

\* C5: the install invocation is issued only after the version query
\* reported a version >= 8.0.0; when the query fails or reports less, the
\* call fails without install invocation or temp-directory import, and the
\* error carries the command (and the reported version when it is too old).
C5_GateBeforeInstall ==
    \A c \in Slots :
        LET call == calls[c]
            t    == call.trace
        IN  /\ \A j \in 1..Len(t) :
                   IsInstallExec(t[j]) =>
                       \E i \in 1..(j - 1) :
                           /\ t[i].op = "versionSettled"
                           /\ ~t[i].arg.failed
                           /\ t[i].arg.stdout \in { <<"8.0.0">>, <<"10.2.1">> }
            /\ \A i \in 1..Len(t) :
                   (t[i].op = "versionSettled"
                      /\ (t[i].arg.failed \/ t[i].arg.stdout = <<"7.1.2">>)) =>
                       /\ call.pc = "failed"
                       /\ \A j \in 1..Len(t) :
                              ~IsInstallExec(t[j]) /\ t[j].op # "importRelative"
                       /\ call.error.kind = "OrchestrationFailed"
                       /\ call.error.message.cmd = versionCmd
                       /\ ~t[i].arg.failed =>
                              call.error.message.version = t[i].arg.stdout

\* A call failed because the version query reported 7.1.2.
C5_Witness ==
    \E c \in Slots :
        /\ calls[c].pc = "failed"
        /\ calls[c].error.kind = "OrchestrationFailed"
        /\ calls[c].error.message.kind = "ToolVersionTooOld"

\* The call in slot c returns its modules in this step.
Returns(c) == calls[c].pc # "done" /\ calls'[c].pc = "done"

\* The cache as a call that returns leaves it: an entry for each of its
\* packages, holding the call's install directory or INSTALLED_LOCALLY, and
\* npxResolve of each of its specifiers answering from that entry.
CachedByCall(cache, call) ==
    \A j \in 1..Len(call.packages) :
        LET p == call.packages[j]
            r == npxResolve(cache, p.name \o <<"@">> \o p.version \o p.path)
        IN  /\ p.name \in DOMAIN cache
            /\ r.error = NoError
            /\ r.spec = p.name \o p.path
            /\ IF p.local
               THEN cache[p.name] = INSTALLED_LOCALLY /\ r.via = "_resolve"
               ELSE /\ cache[p.name] = InstalledAt(call.installDir)
                    /\ r.via = "_resolveRelative"
                    /\ r.base = InstalledAt(call.installDir)

C7_UnknownNameFails ==
    \A pkg \in ProcResolveInputs :
        (parse(pkg).ok /\ parse(pkg).name \notin requested) =>
            npxResolve(INSTALL_CACHE, pkg).error.kind = "ResolveBeforeImport"

\* The call has probed every specifier of its input.
Probed(call) == call.pc # "idle" /\ Len(call.packages) = Len(call.pkg.specs)

EmptyCache == [n \in {} |-> INSTALLED_LOCALLY]

\* C8: a call whose packages are all locally loadable returns the probed
\* modules and does nothing else: no version query, no install invocation,
\* no logger call, no cache write; npxResolve of its packages afterwards
\* fails with ResolveBeforeImport.
C8_AllLocalTouchesNothing ==
    \A c \in Slots :
        LET call == calls[c]
        IN  (Probed(call) /\ \A j \in 1..Len(call.packages) : call.packages[j].local) =>
                /\ call.pc = "done"
                /\ Ops(call) \subseteq {"import"}
                /\ \A j \in 1..Len(call.result.value) :
                       call.result.value[j] \in
                           { Module(<<>>, Target(call.pkg.specs[k])) :
                               k \in 1..Len(call.pkg.specs) }
                /\ INSTALL_CACHE = EmptyCache
                /\ \A j \in 1..Len(call.pkg.specs) :
                       npxResolve(INSTALL_CACHE, call.pkg.specs[j]).error.kind
                           = "ResolveBeforeImport"

\* A call of two specifiers, both locally loadable, has returned.
C8_Witness ==
    \E c \in Slots :
        /\ calls[c].pc = "done"
        /\ Len(calls[c].packages) = 2
        /\ \A j \in 1..2 : calls[c].packages[j].local

\* Two specifiers of the input, each valid on its own, have the same name.
RepeatsValidName(pkg) ==
    \E i, j \in 1..Len(pkg.specs) :
        /\ i < j
        /\ parseAndValidate(pkg.specs[i]).error = NoError
        /\ parseAndValidate(pkg.specs[j]).error = NoError
        /\ parse(pkg.specs[i]).name = parse(pkg.specs[j]).name

\* The first specifier of the input that is invalid or repeats a name is a
\* repeat.
FirstOffenceIsRepeat(pkg) ==
    \E j \in 1..Len(pkg.specs) :
        /\ \A i \in 1..j : parseAndValidate(pkg.specs[i]).error = NoError
        /\ \E i \in 1..(j - 1) : parse(pkg.specs[i]).name = parse(pkg.specs[j]).name

\* C9 as stated: a call whose input holds two specifiers of the same
\* package name fails with the duplicate-request error, issues no version
\* query and no install invocation, and leaves the cache unchanged.
C9_DuplicateAlwaysReported ==
    \A c \in Slots :
        LET call == calls[c]
        IN  (call.pc \in {"done", "failed"} /\ RepeatsValidName(call.pkg)) =>
                /\ call.pc = "failed"
                /\ call.error.kind = "DuplicatePackageRequest"
                /\ Ops(call) \subseteq {"import"}
                /\ INSTALL_CACHE = EmptyCache

\* C9 amended: such a call always fails without version query, install
\* invocation or cache write; its error is the duplicate-request error when
\* no specifier before the repeated one fails validation, and otherwise an
\* error of the validation pass, raised before anything is installed.
C9_DuplicateOrEarlierError ==
    \A c \in Slots :
        LET call == calls[c]
        IN  (call.pc # "idle" /\ RepeatsValidName(call.pkg)) =>
                /\ call.pc \in {"probing", "failed"}
                /\ Ops(call) \subseteq {"import"}
                /\ INSTALL_CACHE = EmptyCache
                /\ call.pc = "failed" =>
                       IF FirstOffenceIsRepeat(call.pkg)
                       THEN call.error.kind = "DuplicatePackageRequest"
                       ELSE call.error.kind \in ValidationKinds \cup {"ParseError"}

\* A call failed with the duplicate-request error for two specifiers of one
\* name that differ in version and subpath.
C9_Witness ==
    \E c \in Slots :
        /\ calls[c].pc = "failed"
        /\ calls[c].error.kind = "DuplicatePackageRequest"
        /\ \E i, j \in 1..Len(calls[c].pkg.specs) :
               /\ parse(calls[c].pkg.specs[i]).name = parse(calls[c].pkg.specs[j]).name
               /\ parse(calls[c].pkg.specs[i]).version # parse(calls[c].pkg.specs[j]).version
               /\ parse(calls[c].pkg.specs[i]).path # parse(calls[c].pkg.specs[j]).path

Range(s) == { s[j] : j \in 1..Len(s) }

\* The error kinds the version gate, the installer and the import from the
\* temporary directory raise.
InstallPhaseKinds ==
    { "ExecaError", "ToolUnavailable", "InvalidVersion", "ToolVersionTooOld",
      "InstallFailed", "TempDirNotFound", "UnexpectedInstallLayout", "ImportError" }

\* C10: a failure after probing, in a call with missing packages, reaches
\* the caller as one composite error holding the underlying error, every
\* missing package name, and an install command that lists each missing
\* package as name@versionOrTag, without subpath and without the local
\* packages; validation errors are not wrapped.
C10_CompositeFailure ==
    \A c \in Slots :
        LET call    == calls[c]
            missing == { p \in Range(call.packages) : ~p.local }
        IN  call.pc = "failed" =>
                IF \E j \in 1..Len(call.trace) : IsVersionExec(call.trace[j])
                THEN /\ call.error.kind = "OrchestrationFailed"
                     /\ call.error.message.kind \in InstallPhaseKinds
                     /\ Range(call.error.install) = { p.name : p \in missing }
                     /\ Len(call.error.install) = Cardinality(missing)
                     /\ { Unquoted(x) : x \in Range(call.error.instructions.packages) }
                            = { p.name \o <<"@">> \o p.version : p \in missing }
                     /\ Len(call.error.instructions.packages) = Cardinality(missing)
                     /\ call.error.instructions.command \in
                            { <<"npm", "install", "--save-dev">>,
                              <<"pnpm", "add", "-D">>, <<"yarn", "add", "-D">> }
                ELSE call.error.kind \in ValidationKinds \cup {"ParseError"}

\* A call with a local package and a missing one that has a subpath failed
\* while importing from the temporary directory.
C10_Witness ==
    \E c \in Slots :
        /\ calls[c].pc = "failed"
        /\ calls[c].error.kind = "OrchestrationFailed"
        /\ calls[c].error.message.kind = "ImportError"
        /\ \E j, k \in 1..Len(calls[c].packages) :
               /\ calls[c].packages[j].local
               /\ ~calls[c].packages[k].local
               /\ calls[c].packages[k].path # <<>>

\* A specifier with its version or tag cut out: what is left of it when the
\* "@" after the name, and everything up to the subpath, is removed.
Unversioned(p) ==
    LET at == IndexOfFirst(p, 2, {"@"})
    IN  IF at > Len(p) THEN p
        ELSE SubSeq(p, 1, at - 1) \o SubSeqFrom(p, IndexOfFirst(p, at, {"/"}))

IsProbe(e) == e.op = "import"
IsTempImport(e) == e.op = "importRelative"
ProbeRequests(call) == SelectSeq(call.trace, IsProbe)
TempRequests(call) == SelectSeq(call.trace, IsTempImport)

\* C11: specifiers that differ only in version or tag give the identical
\* local probe request, name+subpath; the import from the temporary
\* directory asks for name+subpath too, the version stripped.
C11_VersionNeverRequested ==
    /\ \A c, d \in Slots :
           \A i \in 1..Len(ProbeRequests(calls[c])) :
               \A j \in 1..Len(ProbeRequests(calls[d])) :
                   Unversioned(calls[c].pkg.specs[i]) = Unversioned(calls[d].pkg.specs[j]) =>
                       /\ ProbeRequests(calls[c])[i].arg = ProbeRequests(calls[d])[j].arg
                       /\ ProbeRequests(calls[c])[i].arg = Unversioned(calls[c].pkg.specs[i])
    /\ \A c \in Slots :
           \A k \in 1..Len(TempRequests(calls[c])) :
               \E i \in 1..Len(calls[c].pkg.specs) :
                   /\ parse(calls[c].pkg.specs[i]).name = calls[c].missingPackages[k].name
                   /\ TempRequests(calls[c])[k].arg.spec = Unversioned(calls[c].pkg.specs[i])

\* Two calls were handed the same package under different tags, probed it
\* and went on to import it from their temporary directories.
C11_Witness ==
    \E c, d \in Slots :
        \E i \in 1..Len(ProbeRequests(calls[c])) :
            \E j \in 1..Len(ProbeRequests(calls[d])) :
                /\ calls[c].pkg.specs[i] # calls[d].pkg.specs[j]
                /\ Unversioned(calls[c].pkg.specs[i]) = Unversioned(calls[d].pkg.specs[j])
                /\ \E k \in 1..Len(TempRequests(calls[c])) :
                       TempRequests(calls[c])[k].arg.spec = Unversioned(calls[c].pkg.specs[i])
                /\ \E k \in 1..Len(TempRequests(calls[d])) :
                       TempRequests(calls[d])[k].arg.spec = Unversioned(calls[d].pkg.specs[j])

\* C12 as stated: once a name has a cache entry, no later step changes the
\* value of that entry.
C12_WrittenOnce ==
    [][ \A n \in DOMAIN INSTALL_CACHE :
            /\ n \in DOMAIN INSTALL_CACHE'
            /\ INSTALL_CACHE'[n] = INSTALL_CACHE[n] ]_vars

\* C13: the cache is empty at process start and no step of npxImport or
\* npxResolve removes a name from it, so an npxResolve that got past the
\* ResolveBeforeImport check gets past it ever after.
C13_CacheOnlyGrows ==
    /\ INSTALL_CACHE = EmptyCache
    /\ [][ /\ DOMAIN INSTALL_CACHE \subseteq DOMAIN INSTALL_CACHE'
           /\ \A pkg \in ProcResolveInputs :
                  npxResolve(INSTALL_CACHE, pkg).error.kind # "ResolveBeforeImport" =>
                      npxResolve(INSTALL_CACHE', pkg).error.kind # "ResolveBeforeImport"
       ]_vars

\* The cache holds two names, a call has failed since, and npxResolve has
\* answered from an install directory.
C13_Witness ==
    /\ Cardinality(DOMAIN INSTALL_CACHE) = 2
    /\ \E c \in Slots : calls[c].pc = "failed"
    /\ lastResolve.error = NoError
    /\ lastResolve.via = "_resolveRelative"
    /\ lastResolve.base.tag = "dir"

\* The call's install invocation names package `name`.
InstallsPackage(call, name) ==
    \E j \in 1..Len(call.trace) :
        /\ IsInstallExec(call.trace[j])
        /\ \E x \in Range(call.trace[j].arg.packages) :
               /\ Len(Unquoted(x)) > Len(name)
               /\ SubSeq(Unquoted(x), 1, Len(name) + 1) = name \o <<"@">>

\* C14: calls are not serialized.  Each call classifies by its own probes
\* and, once past the gate, has issued an install invocation of its own for
\* each package it found missing, also while another call that found the
\* same package missing is in flight with its own invocation.
C14_NotSerialized ==
    \A c \in Slots :
        LET call == calls[c]
        IN  call.pc \in {"installing", "importing", "done"} =>
                /\ { call.missingPackages[k].name : k \in 1..Len(call.missingPackages) }
                       = { call.packages[j].name :
                             j \in { j \in 1..Len(call.packages) : ~call.packages[j].local } }
                /\ \A k \in 1..Len(call.missingPackages) :
                       InstallsPackage(call, call.missingPackages[k].name)

\* Both calls are in flight at once, each found pkg-a missing, and each has
\* issued its own install invocation naming it.
C14_Witness ==
    \A c \in Slots :
        /\ calls[c].pc = "installing"
        /\ \E j \in 1..Len(calls[c].packages) :
               /\ calls[c].packages[j].name = <<"pkg-a">>
               /\ ~calls[c].packages[j].local
        /\ InstallsPackage(calls[c], <<"pkg-a">>)

IsLog(e) == e.op = "log"
LogKinds(call) ==
    LET logs == SelectSeq(call.trace, IsLog)
    IN  [j \in 1..Len(logs) |-> logs[j].arg.kind]

\* Positions in the trace of the call of the events of a kind.
LogAt(call, kind) ==
    { j \in 1..Len(call.trace) : IsLog(call.trace[j]) /\ call.trace[j].arg.kind = kind }
OpAt(call, op) == { j \in 1..Len(call.trace) : call.trace[j].op = op }
VersionExecAt(call) == { j \in 1..Len(call.trace) : IsVersionExec(call.trace[j]) }
InstallExecAt(call) == { j \in 1..Len(call.trace) : IsInstallExec(call.trace[j]) }
Before(S, T) == \A i \in S : \A j \in T : i < j

\* C15: a successful call with missing packages logs exactly four messages:
\* 'not available locally' before the version query, 'Installing...' with
\* the invocation before the install command runs, then 'Installed into'
\* with the directory and 'To skip this step' after the install command
\* has settled and before any import from the temporary directory.
C15_FourLogsInOrder ==
    \A c \in Slots :
        LET call == calls[c]
        IN  (call.pc = "done" /\ \E j \in 1..Len(call.packages) : ~call.packages[j].local) =>
                /\ LogKinds(call) = << "notAvailableLocally", "installing",
                                       "installedInto", "toSkip" >>
                /\ Before(LogAt(call, "notAvailableLocally"), VersionExecAt(call))
                /\ Before(OpAt(call, "versionSettled"), LogAt(call, "installing"))
                /\ Before(LogAt(call, "installing"), InstallExecAt(call))
                /\ Before(OpAt(call, "installSettled"), LogAt(call, "installedInto"))
                /\ Before(LogAt(call, "installedInto"), LogAt(call, "toSkip"))
                /\ Before(LogAt(call, "toSkip"), OpAt(call, "importRelative"))
                /\ Cardinality(VersionExecAt(call)) = 1
                /\ Cardinality(InstallExecAt(call)) = 1
                /\ OpAt(call, "importRelative") # {}
                /\ \A j \in LogAt(call, "installing") : \A x \in InstallExecAt(call) :
                       call.trace[j].arg.cmd.packages = call.trace[x].arg.packages
                /\ \A j \in LogAt(call, "installedInto") :
                       call.trace[j].arg.dir = call.installDir

\* A call that found one package local and two missing has returned.
C15_Witness ==
    \E c \in Slots :
        /\ calls[c].pc = "done"
        /\ Len(calls[c].missingPackages) = 2
        /\ Len(calls[c].localPackages) = 1
        /\ Len(LogKinds(calls[c])) = 4

\* The node_modules directory of the npx cache entry `hash`.
NodeModulesOf(hash) ==
    <<"/", ".npm", "/", "_npx", "/", hash, "/", "node_modules">>

\* What the search path an install printed should resolve to: a directory,
\* or the error for a path without a segment of the npx cache, or for one
\* whose first such segment is not a child of a node_modules directory.
ExpectedOfStdout(stdout) ==
    CASE stdout = UsrBin \o <<":">> \o NpxBin("h1") ->
             [error |-> "none", dir |-> NodeModulesOf("h1")]
      [] stdout = NpxBin("h2") \o <<":">> \o NpxBin("h1") \o <<":">> \o UsrBin ->
             [error |-> "none", dir |-> NodeModulesOf("h2")]
      [] stdout = UsrBin ->
             [error |-> "TempDirNotFound", dir |-> <<>>]
      [] stdout = <<"/", ".npm", "/", "_npx", "/", "h1", "/", "bin">>
                      \o <<":">> \o NpxBin("h2") ->
             [error |-> "UnexpectedInstallLayout", dir |-> <<>>]

\* C16: the install directory is the parent of the first segment of the
\* printed search path that matches '/.npm/_npx/'; without such a segment
\* the call fails with TempDirNotFound, with a parent that does not end in
\* node_modules it fails with UnexpectedInstallLayout, and in both cases
\* nothing is logged as installed, nothing is imported from a temporary
\* directory and nothing is written to the cache.
C16_TempDirFromFirstSegment ==
    \A c \in Slots :
        LET call == calls[c]
        IN  \A i \in OpAt(call, "installSettled") :
                LET o == call.trace[i].arg
                    e == ExpectedOfStdout(o.stdout)
                IN  (~o.rejected /\ ~o.failed) =>
                        IF e.error = "none"
                        THEN /\ call.installDir = e.dir
                             /\ \A j \in LogAt(call, "installedInto") :
                                    call.trace[j].arg.dir = e.dir
                             /\ \A j \in OpAt(call, "importRelative") :
                                    call.trace[j].arg.dir = e.dir
                             /\ OpAt(call, "importRelative") # {}
                        ELSE /\ call.pc = "failed"
                             /\ call.error.kind = "OrchestrationFailed"
                             /\ call.error.message.kind = e.error
                             /\ LogAt(call, "installedInto") = {}
                             /\ OpAt(call, "importRelative") = {}
                             /\ OpAt(call, "cacheWrite") = {}
                             /\ INSTALL_CACHE = EmptyCache

\* A call has taken the directory of the first of two matching segments,
\* and the last is another one.
C16_Witness ==
    \E c \in Slots :
        /\ calls[c].pc = "done"
        /\ calls[c].installDir = NodeModulesOf("h2")
        /\ \E i \in OpAt(calls[c], "installSettled") :
               calls[c].trace[i].arg.stdout
                   = NpxBin("h2") \o <<":">> \o NpxBin("h1") \o <<":">> \o UsrBin

\* C17 as stated: a call that fails leaves the cache as it was before the
\* call; for the one call from process start, empty.
C17_FailedCallLeavesCache ==
    \A c \in Slots : calls[c].pc = "failed" => INSTALL_CACHE = EmptyCache

\* The package names of the call that have a cache entry.
Cached(call) ==
    { call.packages[j].name : j \in 1..Len(call.packages) } \cap DOMAIN INSTALL_CACHE

\* C18 as stated: at every suspend point of a call with missing packages,
\* either none or all of its package names have been written to the cache.
C18_CacheWritesAtomic ==
    \A c \in Slots :
        InFlight(calls[c]) =>
            \/ Cached(calls[c]) = {}
            \/ Cached(calls[c]) =
                   { calls[c].packages[j].name : j \in 1..Len(calls[c].packages) }

IsSettled(e) == e.op \in {"versionSettled", "installSettled"}

\* What the environment has answered the call so far: the outcome of each
\* probe, of the version query and of the install command, and how many
\* imports from the temporary directory succeeded and whether one failed.
Answers(call) ==
    [ locals   |-> [j \in 1..Len(call.packages) |-> call.packages[j].local],
      settled  |-> SelectSeq(call.trace, IsSettled),
      imported |-> Cardinality({ j \in 1..Len(call.packages) :
                                   /\ ~call.packages[j].local
                                   /\ call.packages[j].imported # NOT_IMPORTABLE }),
      importFailed |-> /\ call.pc = "failed"
                       /\ call.error.kind = "OrchestrationFailed"
                       /\ call.error.message.kind = "ImportError" ]

\* C19: npxImport does not read the cache.  Two calls with the same input
\* that got the same answers from the environment, at whatever times and
\* cache contents they ran, have issued the same probes, version query and
\* install invocation and have come to the same result or error; and a call
\* past the gate has issued an install invocation for every package its
\* probe did not find, cached or not.
C19_CacheNeverRead ==
    /\ \A c, d \in Slots :
           ( /\ calls[c].pc # "idle"
             /\ calls[d].pc # "idle"
             /\ calls[c].pkg = calls[d].pkg
             /\ Answers(calls[c]) = Answers(calls[d]) ) =>
               /\ calls[c].pc = calls[d].pc
               /\ calls[c].trace = calls[d].trace
               /\ calls[c].result = calls[d].result
               /\ calls[c].error = calls[d].error
    /\ \A c \in Slots :
           calls[c].pc \in {"installing", "importing", "done"} =>
               \A j \in 1..Len(calls[c].packages) :
                   ~calls[c].packages[j].local =>
                       InstallsPackage(calls[c], calls[c].packages[j].name)

\* A call has installed pkg-a into a temporary directory and returned; a
\* later call with the same input, begun after that with pkg-a in the cache,
\* found it missing again and has issued its own install invocation for it.
C19_Witness ==
    \E c, d \in Slots :
        /\ c # d
        /\ calls[d].pc = "done"
        /\ calls[c].pc = "installing"
        /\ ~calls[c].overlapped
        /\ calls[c].pkg = calls[d].pkg
        /\ <<"pkg-a">> \in DOMAIN INSTALL_CACHE
        /\ INSTALL_CACHE[<<"pkg-a">>] = InstalledAt(calls[d].installDir)
        /\ \E j \in 1..Len(calls[c].packages) :
               calls[c].packages[j].name = <<"pkg-a">> /\ ~calls[c].packages[j].local
        /\ InstallsPackage(calls[c], <<"pkg-a">>)

\* C20 as stated: a call fails with the duplicate-request error only when
\* two of its specifiers parse to the same package name.
C20_DuplicateOnlyForRepeats ==
    \A c \in Slots :
        (calls[c].pc = "failed" /\ calls[c].error.kind = "DuplicatePackageRequest") =>
            \E i, j \in 1..Len(calls[c].pkg.specs) :
                /\ i < j
                /\ parse(calls[c].pkg.specs[i]).name = parse(calls[c].pkg.specs[j]).name

====
